---------------------------- MODULE Spec2Model ----------------------------
(***************************************************************************)
(* md2slides: the slide segmenter (parseSlides) and the ownership-aware    *)
(* gist gateway (/api/gist/save, list, delete, check-ownership).           *)
(*                                                                         *)
(* A text is a sequence of one-character strings, so that split, join,     *)
(* trim and the boundary regular expression are computed character by      *)
(* character, as the code computes them.                                   *)
(***************************************************************************)
EXTENDS Integers, Sequences, FiniteSets, TLC

VARIABLES
    text,       \* segmenter: the markdown handed to parseSlides
    slides,     \* segmenter: the slide sequence last returned
    view,       \* segmenter: which parseSlides produced slides ("none" before)
    token,      \* gateway: TRUE iff GITHUB_TOKEN is configured
    gists,      \* gateway: ids of the documents that exist in the remote store
    nextId,     \* gateway: the id the remote store assigns to the next create
    cookie,     \* client: value of the md2slides_owned cookie
    returned,   \* history: ids returned to this client by a successful save
    created,    \* history: those of them returned by a save with no existing id
    issuedBefore, \* history: ids the remote store had issued when lastReq was sent
    lastReq,    \* the request answered last
    lastResp,   \* the response it got
    lastDoc,    \* the remote document it read, for a load answered ok
    ownedGists,   \* list: the ownership list whose lookups are in flight
    gistPromises, \* list: per position, Pending or what its lookup resolved to
    settleOrder,  \* list: the positions in the order their lookups completed
    joined,       \* list: TRUE once Promise.all has resolved
    listed,       \* list: the ids of the documents in the response
    inflight,     \* tabs: per tab, the save request sent and not yet answered
    content,          \* editor: the markdown in the editor
    title,            \* editor: the title field
    currentGistId,    \* editor: the id autosave writes to, NoId for null
    gistParam,        \* editor: the gist id in the location, the gistId prop
    isLoadingGist,    \* editor: a load is in flight
    loadReq,          \* editor: the load in flight
    shareReqs,        \* editor: the saves sent by Share and not yet answered
    showPublishModal, \* editor: the share dialog is open
    publishedUrl,     \* editor: the id embedded in the share URL
    timers,           \* editor: the pending autosave timers with their closures
    storage,          \* editor: md2slides-content / md2slides-title in localStorage
    quiet,            \* history: seconds since content or title last changed
    lastEv,           \* history: what the last step of the editor did
    currentSlide,        \* pages: the stored slide index of the mounted page
    presentationContent, \* pages: App state, the text handed to present mode
    loads,               \* pages: the loads of the mounted page that are in flight
    now,          \* store: the time, in saves and ticks
    metadata,     \* store: per id, the metadata.json entry of the document
    firstCreated  \* history: per id, the time the document was created

segVars == <<text, slides, view>>
gwVars == <<token, gists, nextId, cookie, returned, created, issuedBefore, lastReq, lastResp, lastDoc>>
lookupVars == <<ownedGists, gistPromises, settleOrder, joined, listed>>
raceVars == <<inflight>>
edVars == <<content, title, currentGistId, gistParam, isLoadingGist, loadReq, shareReqs,
            showPublishModal, publishedUrl, timers, storage, quiet, lastEv>>
pageVars == <<currentSlide, presentationContent, loads>>
metaVars == <<now, metadata, firstCreated>>
auxVars == <<currentSlide, presentationContent, loads, now, metadata, firstCreated>>
vars == <<text, slides, view, token, gists, nextId, cookie, returned, created, issuedBefore, lastReq, lastResp, lastDoc, ownedGists, gistPromises, settleOrder, joined, listed, inflight, content, title, currentGistId, gistParam, isLoadingGist, loadReq, shareReqs, showPublishModal, publishedUrl, timers, storage, quiet, lastEv, currentSlide, presentationContent, loads, now, metadata, firstCreated>>

(***************************************************************************)
(* Bounds                                                                  *)
(***************************************************************************)
\* longest enumerated input text, in characters
MaxLen == 5
\* number of ids the remote store can issue
MaxIds == 2

(***************************************************************************)
(* Characters and texts                                                    *)
(***************************************************************************)
HASH == "#"
SP == " "
NL == "\n"
TAB == "\t"

\* the characters String.prototype.trim removes that the alphabet contains
Whitespace == {SP, NL, TAB}

Alphabet == {HASH, SP, NL, TAB, "a"}

\* the texts of the specification's examples
ExTwoSlides == <<HASH, SP, "A", NL, "b", "o", "d", "y", NL, HASH, HASH, SP, "B", NL, "m", "o", "r", "e">>
ExSlideA == <<HASH, SP, "A", NL, "b", "o", "d", "y">>
ExSlideB == <<HASH, HASH, SP, "B", NL, "m", "o", "r", "e">>
ExLevel3 == <<HASH, SP, "A", NL, HASH, HASH, HASH, SP, "C", NL, "m", "o", "r", "e">>
ExNotHeadings == <<"x", NL, SP, HASH, SP, "A", NL, HASH, "B", NL, TAB, HASH, HASH, SP, "C">>
ExLeading == <<"i", "n", "t", "r", "o", NL, HASH, SP, "A", NL, "b", "o", "d", "y">>
ExThreeSpaces == <<SP, SP, SP>>

ExampleTexts == {ExTwoSlides, ExLevel3, ExNotHeadings, ExLeading, ExThreeSpaces}

Texts == (UNION {[1..n -> Alphabet] : n \in 0..MaxLen}) \cup ExampleTexts

(***************************************************************************)
(* parseSlides, SlidePreview.tsx 14-36 and LandingPage.tsx 32-53           *)
(***************************************************************************)
\* "# Welcome\n\nNo content to display"
PLACEHOLDER == <<HASH, SP, "W", "e", "l", "c", "o", "m", "e", NL, NL, "N", "o", SP, "c", "o", "n", "t", "e", "n", "t", SP, "t", "o", SP, "d", "i", "s", "p", "l", "a", "y">>

\* "# Welcome"
LANDING_PLACEHOLDER == <<HASH, SP, "W", "e", "l", "c", "o", "m", "e">>

\* !text.trim(): trimming leaves the empty string
TrimIsEmptyNoTrim(t) == Len(t) = 0

TrimIsEmpty(t) == \A i \in 1..Len(t) : t[i] \in Whitespace

\* text.split("\n"), a left-to-right scan; acc holds the finished lines
RECURSIVE SplitFrom(_, _, _, _)
SplitFrom(t, i, cur, acc) ==
    IF i > Len(t) THEN Append(acc, cur)
    ELSE IF t[i] = NL THEN SplitFrom(t, i + 1, <<>>, Append(acc, cur))
    ELSE SplitFrom(t, i + 1, Append(cur, t[i]), acc)

Split(t) == SplitFrom(t, 1, <<>>, <<>>)

\* lines.join("\n")
RECURSIVE Join(_)
Join(lines) ==
    IF Len(lines) = 0 THEN <<>>
    ELSE IF Len(lines) = 1 THEN lines[1]
    ELSE lines[1] \o <<NL>> \o Join(Tail(lines))

\* /^#{1,3} /.test(line)
IsBoundaryUpTo3(line) ==
    \E n \in 1..3 :
        /\ Len(line) >= n + 1
        /\ \A i \in 1..n : line[i] = HASH
        /\ line[n + 1] = SP

\* /^#{1,2} /.test(line): n '#' at the start of the line, n in 1..2, then a space
IsBoundary(line) ==
    \E n \in 1..2 :
        /\ Len(line) >= n + 1
        /\ \A i \in 1..n : line[i] = HASH
        /\ line[n + 1] = SP

\* if (current.length > 0) slides.push(current.join("\n")), without the guard's join
PushCurrentDropping(out, current) == out

\* if (current.length > 0) slides.push(current.join("\n"))
PushCurrent(out, current) ==
    IF Len(current) > 0 THEN Append(out, Join(current)) ELSE out

\* a boundary branch that starts the new slide without emitting the accumulated one
StartSlideDropping(out, current, line) == [out |-> out, current |-> <<line>>]

\* a boundary branch that keeps accumulating: the heading joins the lines before it
StartSlideMerging(out, current, line) == [out |-> out, current |-> Append(current, line)]

\* the boundary branch of the loop body: emit the accumulated slide, start a new one
StartSlide(out, current, line) == [out |-> PushCurrent(out, current), current |-> <<line>>]

\* the for loop: lines i..Len(lines) with the accumulators out and current
RECURSIVE ScanLines(_, _, _, _)
ScanLines(lines, i, out, current) ==
    IF i > Len(lines) THEN [out |-> out, current |-> current]
    ELSE IF IsBoundary(lines[i])
         THEN LET s == StartSlide(out, current, lines[i])
              IN  ScanLines(lines, i + 1, s.out, s.current)
         ELSE ScanLines(lines, i + 1, out, Append(current, lines[i]))

\* the loop alone: no flush of the last accumulator, no fallback slide
SegmentLinesNoFlush(t, fallback) == ScanLines(Split(t), 1, <<>>, <<>>).out

\* lines 16-35 of SlidePreview.tsx, 33-52 of LandingPage.tsx, with the fallback slide
SegmentLines(t, fallback) ==
    LET r == ScanLines(Split(t), 1, <<>>, <<>>)
        s == PushCurrent(r.out, r.current)
    IN  IF Len(s) > 0 THEN s ELSE <<fallback>>

\* SlidePreview.tsx parseSlides (editor preview and present mode)
parseSlides(t) ==
    IF TrimIsEmpty(t) THEN <<PLACEHOLDER>> ELSE SegmentLines(t, PLACEHOLDER)

\* a landing-page segmenter that does not push the last accumulated slide
landingParseSlidesNoFlush(t) == SegmentLinesNoFlush(t, LANDING_PLACEHOLDER)

\* LandingPage.tsx parseSlides
landingParseSlides(t) == SegmentLines(t, LANDING_PLACEHOLDER)

(***************************************************************************)
(* The gist gateway, index.ts 168-440                                      *)
(***************************************************************************)
\* gistId undefined in the request body, finalGistId = null
NoId == 0

\* an id the remote store never issued (mistyped, or of another store)
ForeignId == MaxIds + 1

\* outcome of one fetch to the remote store: 0 when the fetch rejects (no HTTP
\* status, a network-level failure), else the HTTP status of the response
Rejected(o) == o = 0

\* response.ok
Ok(o) == o \in 200..299

\* what the remote store can answer to PATCH, GET, DELETE /gists/:id
ExistingOutcomes(g, id, success) == IF id \in g THEN {success, 502, 0} ELSE {404, 502, 0}

\* what the remote store can answer to POST /gists; it has MaxIds ids to issue
CreateOutcomes(n) == (IF n <= MaxIds THEN {201} ELSE {}) \cup {502, 0}

\* the md2slides_owned cookie: absent, a list written by the server, or a
\* value that does not decode to JSON
NoCookie == [state |-> "absent", ids |-> <<>>]

ListCookie(list) == [state |-> "list", ids |-> list]

CorruptCookie == [state |-> "corrupt", ids |-> <<>>]

\* cookies.md2slides_owned ? JSON.parse(decodeURIComponent(...)) : []
OwnedGists(ck) ==
    [throws |-> ck.state = "corrupt",
     list |-> IF ck.state = "list" THEN ck.ids ELSE <<>>]

\* ownedGists.includes(id)
Includes(list, id) == \E i \in 1..Len(list) : list[i] = id

\* a push without the includes test
AddOwnedAlways(list, id) == Append(list, id)

\* a save that leaves the list as it was
AddOwnedNever(list, id) == list

\* if (!ownedGists.includes(resultId)) ownedGists.push(resultId)
AddOwned(list, id) == IF Includes(list, id) THEN list ELSE Append(list, id)

\* a delete that writes the list back as it read it
RemoveOwnedNothing(list, id) == list

\* ownedGists.filter(id => id !== gistId)
RemoveOwned(list, id) == SelectSeq(list, LAMBDA x : x # id)

\* the fields of a response that the handlers set; the others keep these values
BaseResp ==
    [status |-> 200, error |-> "", id |-> NoId, updated |-> FALSE, owned |-> FALSE,
     success |-> FALSE, gists |-> <<>>, setCookie |-> FALSE, cookieIds |-> <<>>,
     payload |-> FALSE, content |-> "", title |-> "", calls |-> <<>>]

\* an error response that also resets the ownership cookie
ErrorRespClearingCookie(status, error, calls) ==
    [BaseResp EXCEPT !.status = status, !.error = error, !.calls = calls,
                     !.setCookie = TRUE]

\* Response.json({ error }, { status })
ErrorResp(status, error, calls) ==
    [BaseResp EXCEPT !.status = status, !.error = error, !.calls = calls]

Call(m, id, o) == [m |-> m, id |-> id, status |-> o]

\* finalGistId that keeps the request's id after a failed update
FinalGistIdKept(gistId, o1) == gistId

\* finalGistId: gistId, set to null when the update was answered !ok
FinalGistId(gistId, o1) == IF gistId # NoId /\ ~Ok(o1) THEN NoId ELSE gistId

\* resultId = finalGistId || result.id
ResultId(finalGistId, resultId) == IF finalGistId # NoId THEN finalGistId ELSE resultId

\* a payload that always reports an update
UpdatedAlways(finalGistId) == TRUE

\* updated: !!finalGistId
Updated(finalGistId) == finalGistId # NoId

\* lines 254-285: the ownership cookie is read, the id added, the payload returned
SaveSuccess(ck, finalGistId, remoteId, calls) ==
    LET owned == OwnedGists(ck)
        resultId == ResultId(finalGistId, remoteId)
    IN  IF owned.throws
        THEN ErrorResp(500, "Failed to save to gist", calls)
        ELSE [BaseResp EXCEPT !.id = resultId,
                              !.updated = Updated(finalGistId),
                              !.setCookie = TRUE,
                              !.cookieIds = AddOwned(owned.list, resultId),
                              !.calls = calls]

\* lines 218-226, 231-239 and 242-285: the create request and what follows it
SaveCreate(ck, finalGistId, n, o2, before) ==
    LET calls == Append(before, Call("POST", NoId, o2))
    IN  IF Rejected(o2) THEN ErrorResp(500, "Failed to save to gist", calls)
        ELSE IF ~Ok(o2) THEN ErrorResp(o2, "Failed to save gist", calls)
        ELSE SaveSuccess(ck, finalGistId, n, calls)

\* lines 203-228: the update request; a rejected fetch throws to the catch of 286
SaveUpdate(gistId, ck, n, o1, o2) ==
    LET calls == <<Call("PATCH", gistId, o1)>>
    IN  IF Rejected(o1) THEN ErrorResp(500, "Failed to save to gist", calls)
        ELSE IF Ok(o1) THEN SaveSuccess(ck, FinalGistId(gistId, o1), gistId, calls)
        ELSE SaveCreate(ck, FinalGistId(gistId, o1), n, o2, calls)

\* a save that refuses an existing id the caller's cookie does not list
SaveHandlerOwnedOnly(tok, gistId, ck, n, o1, o2) ==
    IF ~tok THEN ErrorResp(500, "GitHub token not configured", <<>>)
    ELSE IF gistId # NoId /\ ~Includes(OwnedGists(ck).list, gistId)
         THEN ErrorResp(403, "Not the owner", <<>>)
    ELSE IF gistId # NoId THEN SaveUpdate(gistId, ck, n, o1, o2)
    ELSE SaveCreate(ck, FinalGistId(gistId, o1), n, o2, <<>>)

\* POST /api/gist/save: the response. n is the id the remote store assigns next,
\* o1 the outcome of the update fetch, o2 of the create fetch (each when issued)
SaveHandler(tok, gistId, ck, n, o1, o2) ==
    IF ~tok THEN ErrorResp(500, "GitHub token not configured", <<>>)
    ELSE IF gistId # NoId THEN SaveUpdate(gistId, ck, n, o1, o2)
    ELSE SaveCreate(ck, FinalGistId(gistId, o1), n, o2, <<>>)

\* whether the calls of a response created a document in the remote store
Created(calls) == \E i \in 1..Len(calls) : calls[i].m = "POST" /\ Ok(calls[i].status)

\* a list that fails as a whole when one lookup fails
ListGistsAllOrNothing(list, o) ==
    IF \A i \in 1..Len(list) : Ok(o[list[i]]) THEN list ELSE <<>>

\* lines 317-352: the documents whose lookup was answered ok, in cookie order
ListGists(list, o) == SelectSeq(list, LAMBDA id : Ok(o[id]))

\* GET /api/gist/list: o maps each owned id to the outcome of its lookup
ListHandler(tok, ck, o) ==
    LET owned == OwnedGists(ck)
    IN  IF ~tok \/ owned.throws \/ Len(owned.list) = 0 THEN BaseResp
        ELSE [BaseResp EXCEPT
                 !.gists = ListGists(owned.list, o),
                 !.calls = [i \in 1..Len(owned.list) |->
                               Call("GET", owned.list[i], o[owned.list[i]])]]

\* a status test that forgets the not-found case
DeleteRefusedOn404(o) == ~Ok(o)

\* !response.ok && response.status !== 404
DeleteRefused(o) == ~Ok(o) /\ o # 404

\* a delete that goes to the remote store without looking at the credential
DeleteHandlerNoTokenCheck(tok, gistId, ck, o) ==
    LET calls == <<Call("DELETE", gistId, o)>>
        owned == OwnedGists(ck)
    IN  IF Rejected(o) THEN ErrorResp(500, "Failed to delete gist", calls)
        ELSE IF DeleteRefused(o) THEN ErrorResp(o, "Failed to delete gist", calls)
        ELSE IF owned.throws THEN ErrorResp(500, "Failed to delete gist", calls)
        ELSE [BaseResp EXCEPT !.success = TRUE,
                              !.setCookie = TRUE,
                              !.cookieIds = RemoveOwned(owned.list, gistId),
                              !.calls = calls]

\* DELETE /api/gist/delete/:id
DeleteHandler(tok, gistId, ck, o) ==
    LET calls == <<Call("DELETE", gistId, o)>>
        owned == OwnedGists(ck)
    IN  IF ~tok THEN ErrorResp(500, "GitHub token not configured", <<>>)
        ELSE IF Rejected(o) THEN ErrorResp(500, "Failed to delete gist", calls)
        ELSE IF DeleteRefused(o) THEN ErrorResp(o, "Failed to delete gist", calls)
        ELSE IF owned.throws THEN ErrorResp(500, "Failed to delete gist", calls)
        ELSE [BaseResp EXCEPT !.success = TRUE,
                              !.setCookie = TRUE,
                              !.cookieIds = RemoveOwned(owned.list, gistId),
                              !.calls = calls]

\* an ownership check that asks the remote store whether the document exists
CheckOwnershipRemote(gistId, ck, g) ==
    [BaseResp EXCEPT !.owned = gistId \in g, !.calls = <<Call("GET", gistId, 200)>>]

\* GET /api/gist/check-ownership/:id; g is the remote store, which it never asks
CheckOwnershipHandler(gistId, ck, g) ==
    LET owned == OwnedGists(ck)
    IN  IF owned.throws THEN BaseResp
        ELSE [BaseResp EXCEPT !.owned = Includes(owned.list, gistId)]

\* the shapes of the metadata.json entry of a fetched document: no such entry,
\* content that is not JSON, JSON without a (non-empty) title, JSON with a title
MetaShapes == {"absent", "unparsable", "notitle", "titled"}

\* the title a "titled" metadata entry carries
SomeTitle == "My Talk"

\* the markdown of the presentation.md entry; "" when the entry is missing
Contents == {"", "# Talk"}

DEFAULT_TITLE == "Untitled Presentation"

\* a title extraction without the inner try: a JSON.parse failure propagates
LoadTitleUnguarded(meta) ==
    [throws |-> meta = "unparsable",
     title |-> IF meta = "titled" THEN SomeTitle ELSE DEFAULT_TITLE]

\* lines 467-476: title = metadata.title || "Untitled Presentation" when the entry
\* exists and parses; a parse failure is caught and ignored
LoadTitle(meta) ==
    [throws |-> FALSE,
     title |-> IF meta = "titled" THEN SomeTitle ELSE DEFAULT_TITLE]

\* lines 465-478: the payload of a lookup that was answered ok
LoadPayload(md, meta, calls) ==
    LET t == LoadTitle(meta)
    IN  IF t.throws THEN ErrorResp(500, "Failed to load from gist", calls)
        ELSE [BaseResp EXCEPT !.payload = TRUE, !.content = md,
                              !.title = t.title, !.calls = calls]

\* a load that reads the body whatever the status of the lookup
LoadHandlerNoOkCheck(tok, gistId, o, md, meta) ==
    LoadPayload(md, meta, <<Call("GET", gistId, o)>>)

\* GET /api/gist/load/:id; content and meta are the entries of the document
LoadHandler(tok, gistId, o, md, meta) ==
    LET calls == <<Call("GET", gistId, o)>>
    IN  IF ~tok THEN ErrorResp(500, "GitHub token not configured", <<>>)
        ELSE IF Rejected(o) THEN ErrorResp(500, "Failed to load from gist", calls)
        ELSE IF ~Ok(o) THEN ErrorResp(o, "Gist not found", calls)
        ELSE LoadPayload(md, meta, calls)

\* the browser stores the cookie of a Set-Cookie header
ApplySetCookie(ck, resp) == IF resp.setCookie THEN ListCookie(resp.cookieIds) ELSE ck

\* ids a request can name: the ids issued so far and the foreign id
RequestIds == (1..(nextId - 1)) \cup {ForeignId}

Request(op, gistId) == [op |-> op, gistId |-> gistId, cookie |-> cookie]

\* no remote document was read
NoDoc == [content |-> "", meta |-> "none"]

\* gist.files of a document: the presentation text and the shape of metadata.json
Doc(md, meta) == [content |-> md, meta |-> meta]

(***************************************************************************)
(* The gateway as a state machine: one client sends one request at a time  *)
(* with its cookie, the handler runs against the remote store, the browser *)
(* applies the response; documents also appear and vanish upstream.        *)
(***************************************************************************)
GwInit ==
    /\ token \in BOOLEAN
    /\ gists = {}
    /\ nextId = 1
    /\ cookie = NoCookie
    /\ returned = {}
    /\ created = {}
    /\ issuedBefore = {}
    /\ lastReq = [op |-> "none", gistId |-> NoId, cookie |-> NoCookie]
    /\ lastResp = BaseResp
    /\ lastDoc = NoDoc

\* browser tabs of one client: they share the cookie jar
NumTabs == 2

Tabs == 1..NumTabs

\* a tab with no request in flight
NoReq == [op |-> "none", gistId |-> NoId, cookie |-> NoCookie]

\* setTimeout(..., 2000), in seconds
DEBOUNCE == 2

\* useState initial values of content and title when localStorage is empty
DEFAULT_CONTENT == "# Welcome to md2slides"

DEFAULT_EDITOR_TITLE == "My Presentation"

\* handleClear: setContent("# New Presentation\n\nStart typing...")
CLEARED_CONTENT == "# New Presentation"

\* what the last step of the editor did: the id it was about, whether it sent a
\* remote request, whether the remote operation it completed failed, whether it
\* called alert(), and for a load the answer of the ownership check
Ev(kind, id, remote, failed, alert, owned) ==
    [kind |-> kind, id |-> id, remote |-> remote, failed |-> failed, alert |-> alert,
     owned |-> owned]

NoEv == Ev("none", NoId, FALSE, FALSE, FALSE, FALSE)

\* no metadata entry
NoMeta == [createdAt |-> -1, updatedAt |-> -1]

\* no page of the page model mounted, nothing saved yet
AuxIdle ==
    /\ currentSlide = 0
    /\ presentationContent = <<>>
    /\ loads = <<>>
    /\ now = 0
    /\ metadata = [i \in 1..MaxIds |-> NoMeta]
    /\ firstCreated = [i \in 1..MaxIds |-> -1]

\* no editor mounted
EdIdle ==
    /\ AuxIdle
    /\ content = DEFAULT_CONTENT
    /\ title = DEFAULT_EDITOR_TITLE
    /\ currentGistId = NoId
    /\ gistParam = NoId
    /\ isLoadingGist = FALSE
    /\ loadReq = NoReq
    /\ shareReqs = <<>>
    /\ showPublishModal = FALSE
    /\ publishedUrl = NoId
    /\ timers = {}
    /\ storage = [content |-> "", title |-> ""]
    /\ quiet = 0
    /\ lastEv = NoEv

\* no list request in flight, no tab waiting for an answer, no editor mounted
LookupIdle ==
    /\ ownedGists = <<>>
    /\ gistPromises = <<>>
    /\ settleOrder = <<>>
    /\ joined = FALSE
    /\ listed = <<>>
    /\ inflight = [t \in Tabs |-> NoReq]
    /\ EdIdle

Init ==
    /\ text = <<>>
    /\ slides = <<>>
    /\ view = "none"
    /\ GwInit
    /\ LookupIdle

Answer(req, resp, doc) ==
    /\ lastReq' = req
    /\ lastResp' = resp
    /\ lastDoc' = doc
    /\ issuedBefore' = 1..(nextId - 1)
    /\ cookie' = ApplySetCookie(cookie, resp)

\* save(title, content, gistId?)
Save ==
    \E gistId \in RequestIds \cup {NoId} :
    \E o1 \in IF token /\ gistId # NoId THEN ExistingOutcomes(gists, gistId, 200) ELSE {0} :
    \E o2 \in IF token /\ ~Ok(o1) /\ (gistId = NoId \/ ~Rejected(o1))
              THEN CreateOutcomes(nextId) ELSE {0} :
        LET resp == SaveHandler(token, gistId, cookie, nextId, o1, o2)
        IN  /\ Answer(Request("save", gistId), resp, NoDoc)
            /\ gists' = IF Created(resp.calls) THEN gists \cup {nextId} ELSE gists
            /\ nextId' = IF Created(resp.calls) THEN nextId + 1 ELSE nextId
            /\ returned' = IF resp.id # NoId THEN returned \cup {resp.id} ELSE returned
            /\ created' = IF resp.id # NoId /\ gistId = NoId
                          THEN created \cup {resp.id} ELSE created
            /\ UNCHANGED <<token, segVars, lookupVars, raceVars, auxVars, edVars>>

\* list()
List ==
    \E o \in [{id \in RequestIds : Includes(OwnedGists(cookie).list, id)} -> {200, 404, 502, 0}] :
        /\ \A id \in DOMAIN o :
              o[id] \in IF token THEN ExistingOutcomes(gists, id, 200) ELSE {0}
        /\ Answer(Request("list", NoId), ListHandler(token, cookie, o), NoDoc)
        /\ UNCHANGED <<token, gists, nextId, returned, created, segVars, lookupVars, raceVars, auxVars, edVars>>

\* delete(id)
Delete ==
    \E gistId \in RequestIds :
    \E o \in IF token THEN ExistingOutcomes(gists, gistId, 204) ELSE {0} :
        /\ Answer(Request("delete", gistId), DeleteHandler(token, gistId, cookie, o), NoDoc)
        /\ gists' = IF token /\ Ok(o) THEN gists \ {gistId} ELSE gists
        /\ UNCHANGED <<token, nextId, returned, created, segVars, lookupVars, raceVars, auxVars, edVars>>

\* checkOwnership(id)
CheckOwnership ==
    \E gistId \in RequestIds :
        /\ Answer(Request("check", gistId), CheckOwnershipHandler(gistId, cookie, gists), NoDoc)
        /\ UNCHANGED <<token, gists, nextId, returned, created, segVars, lookupVars, raceVars, auxVars, edVars>>

\* load(id)
Load ==
    \E gistId \in RequestIds :
    \E o \in IF token THEN ExistingOutcomes(gists, gistId, 200) ELSE {0} :
    \E md \in IF Ok(o) THEN Contents ELSE {""} :
    \E meta \in IF Ok(o) THEN MetaShapes ELSE {"absent"} :
        /\ Answer(Request("load", gistId), LoadHandler(token, gistId, o, md, meta),
                  IF token /\ Ok(o) THEN Doc(md, meta) ELSE NoDoc)
        /\ UNCHANGED <<token, gists, nextId, returned, created, segVars, lookupVars, raceVars, auxVars, edVars>>

\* another client of the same server creates a document
UpstreamCreate ==
    /\ token
    /\ nextId <= MaxIds
    /\ gists' = gists \cup {nextId}
    /\ nextId' = nextId + 1
    /\ UNCHANGED <<token, cookie, returned, created, issuedBefore, lastReq, lastResp, lastDoc, segVars, lookupVars, raceVars, auxVars, edVars>>

\* a document is deleted in the remote store, not through this client
UpstreamDelete ==
    \E id \in gists :
        /\ gists' = gists \ {id}
        /\ UNCHANGED <<token, nextId, cookie, returned, created, issuedBefore, lastReq, lastResp, lastDoc, segVars, lookupVars, raceVars, auxVars, edVars>>

Next ==
    Save \/ List \/ Delete \/ CheckOwnership \/ Load \/ UpstreamCreate \/ UpstreamDelete

Spec == Init /\ [][Next]_vars

(***************************************************************************)
(* One list request in small steps: the lookups of the owned ids run in    *)
(* parallel and complete in any order, then Promise.all resolves.          *)
(***************************************************************************)
\* longest ownership list whose lookups are interleaved
MaxOwned == 3

\* a promise that has not settled
Pending == -1

\* response.json() was not reached: the async callback returned null
Null == 0

\* every answer one lookup can get
LookupOutcomes == {200, 404, 502, 0}

\* lists of distinct ids, as save and delete keep them
DistinctLists ==
    {l \in UNION {[1..n -> 1..MaxOwned] : n \in 0..MaxOwned} :
        \A i, j \in 1..Len(l) : l[i] = l[j] => i = j}

\* lines 318-349: what the callback of one lookup resolves to
LookupResult(gistId, o) == IF Ok(o) THEN gistId ELSE Null

\* a join that hands the results on as they completed
PromiseAllAsSettled(promises, order) == [k \in 1..Len(order) |-> promises[order[k]]]

\* Promise.all: the results in the order of the promises
PromiseAll(promises, order) == promises

\* line 352: .filter(g => g !== null)
FilterNotNull(results) == SelectSeq(results, LAMBDA g : g # Null)

LookupInit ==
    /\ text = <<>>
    /\ slides = <<>>
    /\ view = "none"
    /\ GwInit
    /\ token
    /\ ownedGists \in DistinctLists
    /\ gistPromises = [i \in 1..Len(ownedGists) |-> Pending]
    /\ settleOrder = <<>>
    /\ joined = FALSE
    /\ listed = <<>>
    /\ inflight = [t \in Tabs |-> NoReq]
    /\ EdIdle

\* the lookup at position i completes with outcome o
LookupSettles ==
    \E i \in 1..Len(ownedGists) :
    \E o \in LookupOutcomes :
        /\ gistPromises[i] = Pending
        /\ gistPromises' = [gistPromises EXCEPT ![i] = LookupResult(ownedGists[i], o)]
        /\ settleOrder' = Append(settleOrder, i)
        /\ UNCHANGED <<ownedGists, joined, listed, segVars, gwVars, raceVars, auxVars, edVars>>

\* all lookups have completed: await Promise.all(gistPromises), then filter
ListJoin ==
    /\ ~joined
    /\ \A i \in 1..Len(ownedGists) : gistPromises[i] # Pending
    /\ joined' = TRUE
    /\ listed' = FilterNotNull(PromiseAll(gistPromises, settleOrder))
    /\ UNCHANGED <<ownedGists, gistPromises, settleOrder, segVars, gwVars, raceVars, auxVars, edVars>>

LookupNext == LookupSettles \/ ListJoin

LookupSpec == LookupInit /\ [][LookupNext]_vars

(***************************************************************************)
(* Two tabs of one browser save concurrently: a request carries the cookie *)
(* the jar held when it was sent, and the browser stores the Set-Cookie of *)
(* each response when it arrives.                                          *)
(***************************************************************************)
\* a handler that reads the ownership list from the jar at answering time
CookieOfLatest(req, jar) == jar

\* req.headers.get("cookie"): the cookie the request was sent with
CookieOf(req, jar) == req.cookie

RaceInit ==
    /\ Init
    /\ token

\* a tab publishes a new document (handleShare with no bound id sends
\* gistId: null); the browser attaches the cookie the jar holds now
RaceSend ==
    \E t \in Tabs :
    \E gistId \in {NoId} :
        /\ inflight[t] = NoReq
        /\ inflight' = [inflight EXCEPT ![t] = Request("save", gistId)]
        /\ UNCHANGED <<gwVars, segVars, lookupVars, edVars, auxVars>>

\* the server handles the save of a tab and the browser stores its Set-Cookie
RaceRespond ==
    \E t \in Tabs :
    \E o1 \in IF inflight[t].gistId # NoId
              THEN ExistingOutcomes(gists, inflight[t].gistId, 200) ELSE {0} :
    \E o2 \in IF ~Ok(o1) /\ (inflight[t].gistId = NoId \/ ~Rejected(o1))
              THEN CreateOutcomes(nextId) ELSE {0} :
        LET req == inflight[t]
            resp == SaveHandler(token, req.gistId, CookieOf(req, cookie), nextId, o1, o2)
        IN  /\ req # NoReq
            /\ Answer(req, resp, NoDoc)
            /\ gists' = IF Created(resp.calls) THEN gists \cup {nextId} ELSE gists
            /\ nextId' = IF Created(resp.calls) THEN nextId + 1 ELSE nextId
            /\ returned' = IF resp.id # NoId THEN returned \cup {resp.id} ELSE returned
            /\ created' = IF resp.id # NoId /\ req.gistId = NoId
                          THEN created \cup {resp.id} ELSE created
            /\ inflight' = [inflight EXCEPT ![t] = NoReq]
            /\ UNCHANGED <<token, segVars, lookupVars, edVars, auxVars>>

RaceNext == RaceSend \/ RaceRespond

RaceSpec == RaceInit /\ [][RaceNext]_vars

(***************************************************************************)
(* The editor page of one tab: content, title and the bound document id,   *)
(* the debounced autosave, Share, Clear and the load of the document named *)
(* in the location.  Time passes in seconds (Tick); a state update and the *)
(* effects it re-runs are one step.                                        *)
(***************************************************************************)
\* most saves sent by Share that can be in flight together
MaxInFlight == 1

\* what the user types into the editor and into the title field
TypedContents == {"# Mine"}

TypedTitles == {"Mine"}

\* the documents a load can be answered with: one with a presentation and a
\* title, one whose presentation is empty
EdDocs == {Doc("# Talk", "titled"), Doc("", "absent")}

\* an effect cleanup that leaves the timer running
ClearTimeoutNoop(ts) == ts

\* return () => clearTimeout(timer)
ClearTimeout(ts) == {}

\* the closure of setTimeout(async () => ..., 2000)
Timer(c, t, g) == [remaining |-> DEBOUNCE, content |-> c, title |-> t, gistId |-> g]

\* useEffect(..., [content, title, currentGistId]): when one of them changed the
\* cleanup runs and a new timer is set
AutosaveEffect(c, t, g) ==
    IF <<c, t, g>> = <<content, title, currentGistId>> THEN timers
    ELSE ClearTimeout(timers) \cup {Timer(c, t, g)}

\* an autosave that writes remotely whether bound or not
AutosaveRemoteAlways(g) == TRUE

\* if (currentGistId)
AutosaveRemote(g) == g # NoId

\* a catch that reports the failed autosave to the user
AutosaveCatchAlert(failed) == failed

\* catch (error) { console.error(...) }: no alert; an error response is not looked at
AutosaveCatch(failed) == FALSE

\* a load that binds whatever the ownership check answered
BindAfterLoadAlways(owned, id) == id

\* setCurrentGistId(ownership.owned ? gistId : null)
BindAfterLoad(owned, id) == IF owned THEN id ELSE NoId

\* a Share that always publishes first
ShareNeedsSaveAlways(g) == TRUE

\* handleShare: if (currentGistId) { ...; return } else publish
ShareNeedsSave(g) == g = NoId

\* a Share that leaves the location as it is
HashAfterShareKept(id, param) == param

\* window.location.hash = `/editor?gist=${data.id}`, then handleHashChange
HashAfterShare(id, param) == id

\* a load effect without the isLoadingGist test
StartsLoadWhileLoading(param) == param # gistParam /\ param # NoId

\* the load effect, useEffect(..., [gistId]): a load starts when the prop
\* changed to an id and no load is in flight
StartsLoad(param) == param # gistParam /\ param # NoId /\ ~isLoadingGist

LoadEffect(param) ==
    /\ gistParam' = param
    /\ isLoadingGist' = (isLoadingGist \/ StartsLoad(param))
    /\ loadReq' = IF StartsLoad(param)
                  THEN [op |-> "load", gistId |-> param, cookie |-> cookie']
                  ELSE loadReq

\* state setters of content, title and currentGistId with the autosave effect
SetSession(c, t, g) ==
    /\ content' = c
    /\ title' = t
    /\ currentGistId' = g
    /\ timers' = AutosaveEffect(c, t, g)
    /\ quiet' = IF <<c, t>> = <<content, title>> THEN quiet ELSE 0

\* the editor mounts on a location with or without a gist id; document 1 exists
\* remotely and is in the ownership cookie or not
EdInit ==
    /\ text = <<>>
    /\ slides = <<>>
    /\ view = "none"
    /\ token = TRUE
    /\ gists = {1}
    /\ nextId = 2
    /\ cookie \in {NoCookie, ListCookie(<<1>>)}
    /\ returned = {}
    /\ created = {}
    /\ issuedBefore = {}
    /\ lastReq = [op |-> "none", gistId |-> NoId, cookie |-> NoCookie]
    /\ lastResp = BaseResp
    /\ lastDoc = NoDoc
    /\ ownedGists = <<>>
    /\ gistPromises = <<>>
    /\ settleOrder = <<>>
    /\ joined = FALSE
    /\ listed = <<>>
    /\ inflight = [t \in Tabs |-> NoReq]
    /\ content = DEFAULT_CONTENT
    /\ title = DEFAULT_EDITOR_TITLE
    /\ currentGistId = NoId
    /\ gistParam \in {NoId, 1, ForeignId}
    /\ isLoadingGist = (gistParam # NoId)
    /\ loadReq = IF gistParam # NoId
                 THEN [op |-> "load", gistId |-> gistParam, cookie |-> cookie]
                 ELSE NoReq
    /\ shareReqs = <<>>
    /\ showPublishModal = FALSE
    /\ publishedUrl = NoId
    /\ timers = {Timer(content, title, currentGistId)}
    /\ storage = [content |-> "", title |-> ""]
    /\ quiet = 0
    /\ lastEv = Ev("mount", gistParam, gistParam # NoId, FALSE, FALSE, FALSE)
    /\ AuxIdle

gatewayHistory == <<returned, created, issuedBefore, lastReq, lastResp, lastDoc>>

\* MarkdownEditor onChange={setContent}
EditContent ==
    \E v \in TypedContents \ {content} :
        /\ SetSession(v, title, currentGistId)
        /\ lastEv' = Ev("edit", NoId, FALSE, FALSE, FALSE, FALSE)
        /\ UNCHANGED <<gistParam, isLoadingGist, loadReq, shareReqs, showPublishModal,
                       publishedUrl, storage>>
        /\ UNCHANGED <<token, gists, nextId, cookie, gatewayHistory, segVars, lookupVars, raceVars, auxVars>>

\* Input onChange={(e) => setTitle(e.target.value)}
EditTitle ==
    \E v \in TypedTitles \ {title} :
        /\ SetSession(content, v, currentGistId)
        /\ lastEv' = Ev("title", NoId, FALSE, FALSE, FALSE, FALSE)
        /\ UNCHANGED <<gistParam, isLoadingGist, loadReq, shareReqs, showPublishModal,
                       publishedUrl, storage>>
        /\ UNCHANGED <<token, gists, nextId, cookie, gatewayHistory, segVars, lookupVars, raceVars, auxVars>>

\* one second passes; a timer that is due fires first
Tick ==
    /\ \A tm \in timers : tm.remaining > 0
    /\ timers # {} \/ quiet < DEBOUNCE
    /\ timers' = {[tm EXCEPT !.remaining = @ - 1] : tm \in timers}
    /\ quiet' = IF quiet < DEBOUNCE THEN quiet + 1 ELSE quiet
    /\ lastEv' = Ev("tick", NoId, FALSE, FALSE, FALSE, FALSE)
    /\ UNCHANGED <<content, title, currentGistId, gistParam, isLoadingGist, loadReq,
                   shareReqs, showPublishModal, publishedUrl, storage>>
    /\ UNCHANGED <<token, gists, nextId, cookie, gatewayHistory, segVars, lookupVars, raceVars, auxVars>>

\* an autosave that binds the id its save returned
AutosaveBindingFromResponse(g, resp) == IF g # NoId /\ resp.id # NoId THEN resp.id ELSE g

\* the binding after the autosave: `await fetch(...)` without reading the
\* response, no call of setCurrentGistId
AutosaveBinding(g, resp) == g

\* the timer callback: localStorage, then the remote save of a bound document,
\* whose answer is awaited and not looked at
AutosaveFires ==
    \E tm \in timers :
    \E o1 \in IF AutosaveRemote(tm.gistId)
              THEN ExistingOutcomes(gists, tm.gistId, 200) ELSE {0} :
    \E o2 \in IF AutosaveRemote(tm.gistId) /\ ~Ok(o1) /\ ~Rejected(o1)
              THEN CreateOutcomes(nextId) ELSE {0} :
        LET remote == AutosaveRemote(tm.gistId)
            resp == SaveHandler(token, tm.gistId, cookie, nextId, o1, o2)
            failed == remote /\ resp.error # ""
        IN  /\ tm.remaining = 0
            /\ timers' = timers \ {tm}
            /\ storage' = [content |-> tm.content, title |-> tm.title]
            /\ gists' = IF remote /\ Created(resp.calls) THEN gists \cup {nextId} ELSE gists
            /\ nextId' = IF remote /\ Created(resp.calls) THEN nextId + 1 ELSE nextId
            /\ cookie' = IF remote THEN ApplySetCookie(cookie, resp) ELSE cookie
            /\ lastEv' = Ev("autosave", tm.gistId, remote, failed, AutosaveCatch(failed), FALSE)
            /\ currentGistId' = AutosaveBinding(currentGistId, resp)
            /\ UNCHANGED <<content, title, gistParam, isLoadingGist, loadReq,
                           shareReqs, showPublishModal, publishedUrl, quiet>>
            /\ UNCHANGED <<token, gatewayHistory, segVars, lookupVars, raceVars, auxVars>>

\* handleShare up to its await
ShareClick ==
    /\ ShareNeedsSave(currentGistId) => Len(shareReqs) < MaxInFlight
    /\ IF ShareNeedsSave(currentGistId)
       THEN /\ shareReqs' = Append(shareReqs, Request("save", currentGistId))
            /\ lastEv' = Ev("shareSent", currentGistId, TRUE, FALSE, FALSE, FALSE)
            /\ UNCHANGED <<showPublishModal, publishedUrl>>
       ELSE /\ publishedUrl' = currentGistId
            /\ showPublishModal' = TRUE
            /\ lastEv' = Ev("shareUrl", currentGistId, FALSE, FALSE, FALSE, FALSE)
            /\ UNCHANGED shareReqs
    /\ UNCHANGED <<content, title, currentGistId, gistParam, isLoadingGist, loadReq,
                   timers, storage, quiet>>
    /\ UNCHANGED <<token, gists, nextId, cookie, gatewayHistory, segVars, lookupVars, raceVars, auxVars>>

\* handleShare after its await: the fetch rejected (catch, alert), or the server
\* answered and data.id is looked at
ShareSettles ==
    \E i \in 1..Len(shareReqs) :
    \E netFail \in BOOLEAN :
    \E o1 \in IF ~netFail /\ shareReqs[i].gistId # NoId
              THEN ExistingOutcomes(gists, shareReqs[i].gistId, 200) ELSE {0} :
    \E o2 \in IF ~netFail /\ ~Ok(o1) /\ (shareReqs[i].gistId = NoId \/ ~Rejected(o1))
              THEN CreateOutcomes(nextId) ELSE {0} :
        LET req == shareReqs[i]
            resp == SaveHandler(token, req.gistId, CookieOf(req, cookie), nextId, o1, o2)
            bound == ~netFail /\ resp.id # NoId
            param == IF bound THEN HashAfterShare(resp.id, gistParam) ELSE gistParam
        IN  /\ shareReqs' = SubSeq(shareReqs, 1, i - 1) \o SubSeq(shareReqs, i + 1, Len(shareReqs))
            /\ gists' = IF ~netFail /\ Created(resp.calls) THEN gists \cup {nextId} ELSE gists
            /\ nextId' = IF ~netFail /\ Created(resp.calls) THEN nextId + 1 ELSE nextId
            /\ cookie' = IF netFail THEN cookie ELSE ApplySetCookie(cookie, resp)
            /\ SetSession(content, title, IF bound THEN resp.id ELSE currentGistId)
            /\ publishedUrl' = IF bound THEN resp.id ELSE publishedUrl
            /\ showPublishModal' = (showPublishModal \/ bound)
            /\ LoadEffect(param)
            /\ lastEv' = Ev("shareDone", IF bound THEN resp.id ELSE NoId, StartsLoad(param),
                            ~bound, netFail, FALSE)
            /\ UNCHANGED storage
            /\ UNCHANGED <<token, gatewayHistory, segVars, lookupVars, raceVars, auxVars>>

\* a load effect that keeps the title of the session
LoadedTitleKept(data) == title

\* setTitle(data.title || "Loaded from Gist")
LoadedTitle(data) == IF data.title # "" THEN data.title ELSE "Loaded from Gist"

\* a load effect that applies every payload, empty content included
LoadAppliesAnyPayload(data) == data.payload

\* if (data.content): an error payload has no content field
LoadApplies(data) == data.payload /\ data.content # ""

\* a Clear that leaves the binding as it was
BindAfterClearKept(g) == g

\* handleClear: setCurrentGistId(null)
BindAfterClear(g) == NoId

\* how a load ended: a fetch rejected, the server answered {error}, the
\* document was applied, or its content was empty
LoadKind(netFail, data) ==
    IF netFail THEN "loadRejected"
    ELSE IF data.error # "" THEN "loadError"
    ELSE IF data.content # "" THEN "loadApplied"
    ELSE "loadEmpty"

\* the load effect after Promise.all: one of the two fetches rejected (catch,
\* alert), or both answered: data.content is looked at, then finally
LoadSettles ==
    \E netFail \in BOOLEAN :
    \E o \in IF netFail THEN {0} ELSE ExistingOutcomes(gists, loadReq.gistId, 200) :
    \E doc \in IF Ok(o) THEN EdDocs ELSE {NoDoc} :
        LET data == LoadHandler(token, loadReq.gistId, o, doc.content, doc.meta)
            ownership == CheckOwnershipHandler(loadReq.gistId, loadReq.cookie, gists)
            applied == ~netFail /\ LoadApplies(data)
        IN  /\ isLoadingGist
            /\ IF applied
               THEN SetSession(data.content, LoadedTitle(data),
                               BindAfterLoad(ownership.owned, loadReq.gistId))
               ELSE SetSession(content, title, currentGistId)
            /\ isLoadingGist' = FALSE
            /\ loadReq' = NoReq
            /\ lastEv' = Ev(LoadKind(netFail, data), loadReq.gistId, FALSE, ~applied, netFail,
                            ~netFail /\ ownership.owned)
            /\ UNCHANGED <<gistParam, shareReqs, showPublishModal, publishedUrl, storage>>
            /\ UNCHANGED <<token, gists, nextId, cookie, gatewayHistory, segVars, lookupVars, raceVars, auxVars>>

\* handleClear, confirmed
Clear ==
    /\ SetSession(CLEARED_CONTENT, DEFAULT_EDITOR_TITLE, BindAfterClear(currentGistId))
    /\ UNCHANGED cookie
    /\ LoadEffect(NoId)
    /\ lastEv' = Ev("clear", NoId, FALSE, FALSE, FALSE, FALSE)
    /\ UNCHANGED <<shareReqs, showPublishModal, publishedUrl, storage>>
    /\ UNCHANGED <<token, gists, nextId, gatewayHistory, segVars, lookupVars, raceVars, auxVars>>

EdNext ==
    \/ EditContent
    \/ EditTitle
    \/ Tick
    \/ AutosaveFires
    \/ ShareClick
    \/ ShareSettles
    \/ LoadSettles
    \/ Clear

EdSpec == EdInit /\ [][EdNext]_vars

(***************************************************************************)
(* An editor session bound to a document that is then deleted in the       *)
(* remote store (from the landing page of another tab, or on github.com):  *)
(* the session of EdSpec after document 1 was loaded as owned.             *)
(***************************************************************************)
\* the editor after the load of the owned document 1 was applied
StaleInit ==
    LET data == LoadHandler(TRUE, 1, 200, "# Talk", "titled")
    IN  /\ ownedGists = <<>>
        /\ gistPromises = <<>>
        /\ settleOrder = <<>>
        /\ joined = FALSE
        /\ listed = <<>>
        /\ inflight = [t \in Tabs |-> NoReq]
        /\ text = <<>>
        /\ slides = <<>>
        /\ view = "none"
        /\ token = TRUE
        /\ gists = {1}
        /\ nextId = 2
        /\ cookie = ListCookie(<<1>>)
        /\ returned = {}
        /\ created = {}
        /\ issuedBefore = {}
        /\ lastReq = [op |-> "none", gistId |-> NoId, cookie |-> NoCookie]
        /\ lastResp = BaseResp
        /\ lastDoc = NoDoc
        /\ content = data.content
        /\ title = data.title
        /\ currentGistId = 1
        /\ gistParam = 1
        /\ isLoadingGist = FALSE
        /\ loadReq = NoReq
        /\ shareReqs = <<>>
        /\ showPublishModal = FALSE
        /\ publishedUrl = NoId
        /\ timers = {Timer(content, title, currentGistId)}
        /\ storage = [content |-> "", title |-> ""]
        /\ quiet = 0
        /\ lastEv = Ev("loadApplied", 1, FALSE, FALSE, FALSE, TRUE)
        /\ AuxIdle

StaleNext ==
    \/ EditContent
    \/ EditTitle
    \/ Tick
    \/ AutosaveFires
    \/ UpstreamDelete

StaleSpec == StaleInit /\ [][StaleNext]_vars

(***************************************************************************)
(* The pages of App.tsx: the landing page with its demo, the editor with   *)
(* its preview, present mode.  One page is mounted at a time; text is the  *)
(* content state of the mounted page (the demo on the landing page),       *)
(* slides what it renders, currentSlide its stored index, loads the loads  *)
(* its load effect started that have not been answered.  A page that is    *)
(* unmounted takes no answer any more, its loads are dropped.              *)
(***************************************************************************)
\* DEMO_MARKDOWN of LandingPage.tsx: five level-1 headings with their bodies
DEMO_MARKDOWN ==
    <<HASH, SP, "W", NL, "t", NL, HASH, SP, "Y", NL, HASH, SP, "T", NL, "c", NL,
      HASH, SP, "A", NL, "p", NL, HASH, SP, "G", NL, "n">>

\* what the editor can hold: two slides, one slide, nothing
PageTexts == {ExTwoSlides, ExSlideA, <<>>}

\* the presentation.md a load can be answered with; <<>> when it is empty
RemoteTexts == {ExTwoSlides, ExSlideB, <<>>}

\* the ids a location can carry
PageIds == 1..MaxIds

Min(a, b) == IF a < b THEN a ELSE b

Max(a, b) == IF a > b THEN a ELSE b

\* the slides a page renders from its content
Render(v, t) == IF v = "landing" THEN landingParseSlides(t) ELSE parseSlides(t)

\* an index used as it is stored
SafeSlideIndexUnclamped(stored, n) == stored

\* safeSlideIndex = Math.min(currentSlide, slides.length - 1)
SafeSlideIndex(stored, n) == Min(stored, n - 1)

\* the index of the slide on display: slides[safeSlideIndex] in the preview and
\* in present mode, slides[currentSlide] on the landing page
Displayed(v, stored, n) == IF v = "landing" THEN stored ELSE SafeSlideIndex(stored, n)

\* handleNext of SlidePreview; setCurrentSlide(prev => Math.min(prev + 1,
\* slides.length - 1)) in present mode and in the demo
NextIndex(v, stored, n) ==
    IF v = "editor"
    THEN IF SafeSlideIndex(stored, n) < n - 1 THEN SafeSlideIndex(stored, n) + 1 ELSE stored
    ELSE Min(stored + 1, n - 1)

\* handlePrev of SlidePreview; setCurrentSlide(prev => Math.max(prev - 1, 0))
PrevIndex(v, stored, n) ==
    IF v = "editor"
    THEN IF SafeSlideIndex(stored, n) > 0 THEN SafeSlideIndex(stored, n) - 1 ELSE stored
    ELSE Max(stored - 1, 0)

\* setCurrentSlide(prev => (prev + 1) % slides.length), every five seconds
AdvanceIndex(stored, n) == (stored + 1) % n

\* the editor state the page model leaves alone
edRest == <<content, title, currentGistId, loadReq, shareReqs, showPublishModal, publishedUrl,
            timers, storage, quiet, lastEv>>

\* a page is mounted on a location: its state is initial, its load effect runs
Mount(v, t, param) ==
    /\ view' = v
    /\ text' = t
    /\ slides' = Render(v, t)
    /\ currentSlide' = 0
    /\ gistParam' = param
    /\ isLoadingGist' = (v # "landing" /\ param # NoId)
    /\ loads' = IF v # "landing" /\ param # NoId THEN <<param>> ELSE <<>>

\* handlePresent: setPresentationContent(content), the hash keeps the gist id;
\* PresentPage mounts with content = initialContent
Presented(t, param) ==
    /\ presentationContent' = t
    /\ Mount("present", t, param)

\* the application opens on the landing page or on an editor link
PageInit ==
    /\ GwInit
    /\ token
    /\ ownedGists = <<>>
    /\ gistPromises = <<>>
    /\ settleOrder = <<>>
    /\ joined = FALSE
    /\ listed = <<>>
    /\ inflight = [t \in Tabs |-> NoReq]
    /\ content = DEFAULT_CONTENT
    /\ title = DEFAULT_EDITOR_TITLE
    /\ currentGistId = NoId
    /\ loadReq = NoReq
    /\ shareReqs = <<>>
    /\ showPublishModal = FALSE
    /\ publishedUrl = NoId
    /\ timers = {}
    /\ storage = [content |-> "", title |-> ""]
    /\ quiet = 0
    /\ lastEv = NoEv
    /\ now = 0
    /\ metadata = [i \in 1..MaxIds |-> NoMeta]
    /\ firstCreated = [i \in 1..MaxIds |-> -1]
    /\ presentationContent = <<>>
    /\ currentSlide = 0
    /\ \/ /\ view = "landing"
          /\ text = DEMO_MARKDOWN
          /\ gistParam = NoId
       \/ /\ view = "editor"
          /\ text \in PageTexts
          /\ gistParam \in PageIds \cup {NoId}
    /\ slides = Render(view, text)
    /\ isLoadingGist = (view # "landing" /\ gistParam # NoId)
    /\ loads = IF view # "landing" /\ gistParam # NoId THEN <<gistParam>> ELSE <<>>

pageFrame == <<gwVars, lookupVars, raceVars, metaVars, edRest>>

\* MarkdownEditor onChange={setContent}; the preview renders the new content
PageEdit ==
    /\ view = "editor"
    /\ \E t \in PageTexts \ {text} :
           /\ text' = t
           /\ slides' = Render(view, t)
    /\ UNCHANGED <<view, currentSlide, presentationContent, loads, gistParam, isLoadingGist,
                   pageFrame>>

\* Next: the button of the preview, of present mode (also ArrowRight, space),
\* of the demo
SlideNext ==
    /\ currentSlide' = NextIndex(view, currentSlide, Len(slides))
    /\ currentSlide' # currentSlide
    /\ UNCHANGED <<segVars, presentationContent, loads, gistParam, isLoadingGist, pageFrame>>

\* Previous
SlidePrev ==
    /\ currentSlide' = PrevIndex(view, currentSlide, Len(slides))
    /\ currentSlide' # currentSlide
    /\ UNCHANGED <<segVars, presentationContent, loads, gistParam, isLoadingGist, pageFrame>>

\* the interval of the landing page
AutoAdvance ==
    /\ view = "landing"
    /\ currentSlide' = AdvanceIndex(currentSlide, Len(slides))
    /\ UNCHANGED <<segVars, presentationContent, loads, gistParam, isLoadingGist, pageFrame>>

\* Present in the editor
Present ==
    /\ view = "editor"
    /\ Presented(text, gistParam)
    /\ UNCHANGED pageFrame

\* Escape in present mode: the editor mounts again, with what localStorage holds
ExitPresent ==
    /\ view = "present"
    /\ \E t \in PageTexts : Mount("editor", t, gistParam)
    /\ UNCHANGED <<presentationContent, pageFrame>>

\* Get started on the landing page, or a document of the list is opened
OpenEditor ==
    /\ view = "landing"
    /\ \E t \in PageTexts : \E param \in PageIds \cup {NoId} : Mount("editor", t, param)
    /\ UNCHANGED <<presentationContent, pageFrame>>

\* Back in the editor
Back ==
    /\ view = "editor"
    /\ Mount("landing", DEMO_MARKDOWN, NoId)
    /\ UNCHANGED <<presentationContent, pageFrame>>

\* the gist id of the location changes while the editor or present mode is
\* mounted: handleHashChange sets gistId, the load effect of the page runs
HashChange ==
    /\ view \in {"editor", "present"}
    /\ \E param \in (PageIds \cup {NoId}) \ {gistParam} :
           /\ gistParam' = param
           /\ isLoadingGist' = (isLoadingGist \/ StartsLoad(param))
           /\ loads' = IF StartsLoad(param) THEN Append(loads, param) ELSE loads
    /\ UNCHANGED <<segVars, currentSlide, presentationContent, pageFrame>>

\* a load of the mounted page is answered: with a presentation, which becomes
\* the content if it is not empty, or with an error; finally resets isLoadingGist
PageLoadSettles ==
    /\ \E i \in 1..Len(loads) :
       \E answered \in BOOLEAN :
       \E data \in IF answered THEN RemoteTexts ELSE {<<>>} :
           /\ loads' = SubSeq(loads, 1, i - 1) \o SubSeq(loads, i + 1, Len(loads))
           /\ text' = IF data # <<>> THEN data ELSE text
           /\ slides' = Render(view, text')
    /\ isLoadingGist' = FALSE
    /\ UNCHANGED <<view, currentSlide, presentationContent, gistParam, pageFrame>>

PageNext ==
    \/ PageEdit
    \/ SlideNext
    \/ SlidePrev
    \/ AutoAdvance
    \/ Present
    \/ ExitPresent
    \/ OpenEditor
    \/ Back
    \/ HashChange
    \/ PageLoadSettles

PageSpec == PageInit /\ [][PageNext]_vars

(***************************************************************************)
(* The metadata.json entry that a save writes, index.ts 183-198: the       *)
(* remote store keeps, per document, the entry of the last request body it *)
(* accepted.  Time is a counter.                                           *)
(***************************************************************************)
\* the last instant of the clock
MaxTime == 2

\* a metadata entry that keeps the createdAt of the entry already stored
GistDataKeepingCreatedAt(t, stored) ==
    [createdAt |-> IF stored # NoMeta THEN stored.createdAt ELSE t, updatedAt |-> t]

\* gistData.files["metadata.json"]: createdAt and updatedAt are both
\* new Date().toISOString(); the entry stored for the document is not read
GistData(t, stored) == [createdAt |-> t, updatedAt |-> t]

\* the document a remote call wrote: the PATCH's id, the id assigned to a POST
Written(call, n) == IF call.m = "POST" THEN n ELSE call.id

\* the entries after the remote calls of a save: a call answered ok stores the
\* metadata.json of its body
StoreWrites(md, calls, n, t) ==
    [i \in DOMAIN md |->
        IF \E k \in 1..Len(calls) : Ok(calls[k].status) /\ Written(calls[k], n) = i
        THEN GistData(t, md[i]) ELSE md[i]]

MetaInit ==
    /\ Init
    /\ token

\* save(title, content, gistId?) at time now, of a new document or of one that
\* exists
MetaSave ==
    \E gistId \in gists \cup {NoId} :
    \E o1 \in IF token /\ gistId # NoId THEN ExistingOutcomes(gists, gistId, 200) ELSE {0} :
    \E o2 \in IF token /\ ~Ok(o1) /\ (gistId = NoId \/ ~Rejected(o1))
              THEN CreateOutcomes(nextId) ELSE {0} :
        LET resp == SaveHandler(token, gistId, cookie, nextId, o1, o2)
        IN  /\ Answer(Request("save", gistId), resp, NoDoc)
            /\ gists' = IF Created(resp.calls) THEN gists \cup {nextId} ELSE gists
            /\ nextId' = IF Created(resp.calls) THEN nextId + 1 ELSE nextId
            /\ returned' = IF resp.id # NoId THEN returned \cup {resp.id} ELSE returned
            /\ created' = IF resp.id # NoId /\ gistId = NoId
                          THEN created \cup {resp.id} ELSE created
            /\ metadata' = StoreWrites(metadata, resp.calls, nextId, now)
            /\ firstCreated' = IF Created(resp.calls)
                               THEN [firstCreated EXCEPT ![nextId] = now] ELSE firstCreated
            /\ UNCHANGED <<token, now, segVars, lookupVars, raceVars, edVars, pageVars>>

\* time passes between two saves
MetaTick ==
    /\ now < MaxTime
    /\ now' = now + 1
    /\ UNCHANGED <<gwVars, segVars, lookupVars, raceVars, edVars, pageVars, metadata, firstCreated>>

MetaNext == MetaSave \/ MetaTick

MetaSpec == MetaInit /\ [][MetaNext]_vars

\* the same machine started with a cookie the browser already holds: none, one
\* that does not decode to a JSON list, or, at a server started without the
\* credential, a list written while the credential was configured
CookieInit ==
    /\ text = <<>>
    /\ slides = <<>>
    /\ view = "none"
    /\ token \in BOOLEAN
    /\ gists = {}
    /\ nextId = 1
    /\ cookie \in {NoCookie, CorruptCookie} \cup
                 (IF token THEN {} ELSE {ListCookie(<<ForeignId>>)})
    /\ returned = {}
    /\ created = {}
    /\ issuedBefore = {}
    /\ lastReq = [op |-> "none", gistId |-> NoId, cookie |-> NoCookie]
    /\ lastResp = BaseResp
    /\ lastDoc = NoDoc
    /\ LookupIdle

CookieSpec == CookieInit /\ [][Next]_vars

(***************************************************************************)
(* The segmenter as a state machine: a text is drawn, one of the two       *)
(* parseSlides is applied to it.                                           *)
(***************************************************************************)
SegInit ==
    /\ text \in Texts
    /\ slides = <<>>
    /\ view = "none"
    /\ GwInit
    /\ token
    /\ LookupIdle

\* SlidePreview / useSlides render: slides = parseSlides(content)
RenderPreview ==
    /\ view = "none"
    /\ slides' = parseSlides(text)
    /\ view' = "preview"
    /\ UNCHANGED <<text, gwVars, lookupVars, raceVars, auxVars, edVars>>

\* LandingPage render: slides = parseSlides(...)
RenderLanding ==
    /\ view = "none"
    /\ slides' = landingParseSlides(text)
    /\ view' = "landing"
    /\ UNCHANGED <<text, gwVars, lookupVars, raceVars, auxVars, edVars>>

SegNext == RenderPreview \/ RenderLanding

SegSpec == SegInit /\ [][SegNext]_vars

(***************************************************************************)
(* Segmenter claims                                                        *)
(***************************************************************************)
HasNonWhitespace(t) == \E i \in 1..Len(t) : t[i] \notin {SP, NL, TAB}

\* a level-1 or level-2 heading line: "# ..." or "## ..."
HeadingLine(line) ==
    \/ Len(line) >= 2 /\ line[1] = HASH /\ line[2] = SP
    \/ Len(line) >= 3 /\ line[1] = HASH /\ line[2] = HASH /\ line[3] = SP

HeadingIndexes(lines) == {i \in 1..Len(lines) : HeadingLine(lines[i])}

FirstHeading(lines) ==
    CHOOSE i \in HeadingIndexes(lines) : \A j \in HeadingIndexes(lines) : i <= j

\* the texts that have lines before their first heading line
HasLeadingContent(t) ==
    /\ HasNonWhitespace(t)
    /\ HeadingIndexes(Split(t)) # {}
    /\ FirstHeading(Split(t)) > 1

\* C1 as stated: for every text T, joining the slides of parseSlides(T) with
\* newlines gives back T.
C1_JoinReproducesEveryText == view = "preview" => Join(slides) = text

\* C1 amended: for every text T with a non-whitespace character, joining the
\* slides of parseSlides(T) with newlines, in order, gives back T exactly.
C1_JoinReproducesNonBlankText ==
    (view = "preview" /\ HasNonWhitespace(text)) => Join(slides) = text

C1_Witness ==
    /\ view = "preview"
    /\ text = ExTwoSlides
    /\ Len(slides) = 2
    /\ Join(slides) = text

\* C2: whichever parseSlides ran, on whatever text (empty, whitespace-only, with
\* or without headings), the result has at least one slide.
C2_NeverEmpty == view # "none" => Len(slides) >= 1

C2_Witness ==
    /\ view \in {"preview", "landing"}
    /\ ~HasNonWhitespace(text)
    /\ Len(slides) = 1

\* C3: a line starts a new slide iff it is a level-1/2 heading line ("#" or "##"
\* then a space), and it is the first line of the slide it starts: the slides
\* after the first each begin with a heading line, no other line of any slide is
\* a heading line, and every heading line after the first line of the text starts
\* a slide. "# A\nbody\n## B\nmore" gives "# A\nbody" and "## B\nmore"; a "### C"
\* line, a "#B" line and an indented heading stay inside the current slide.
C3_BoundaryIffHeading ==
    (view = "preview" /\ HasNonWhitespace(text)) =>
        LET lines == Split(text)
        IN  /\ Len(slides) = 1 + Cardinality(HeadingIndexes(lines) \ {1})
            /\ \A k \in 1..Len(slides) :
                   LET sl == Split(slides[k])
                   IN  /\ k > 1 => HeadingLine(sl[1])
                       /\ \A j \in 2..Len(sl) : ~HeadingLine(sl[j])
            /\ text = ExTwoSlides => slides = <<ExSlideA, ExSlideB>>
            /\ text = ExLevel3 => slides = <<ExLevel3>>
            /\ text = ExNotHeadings => slides = <<ExNotHeadings>>

C3_Witness ==
    /\ view = "preview"
    /\ text = ExTwoSlides
    /\ slides = <<ExSlideA, ExSlideB>>

\* C4 as stated: lines before the first heading line are part of the slide that
\* starts at that heading: the first slide holds the leading lines and the
\* first heading line.
C4_LeadingAttachedToFirstHeading ==
    (view = "preview" /\ HasLeadingContent(text)) =>
        LET lines == Split(text)
            h == FirstHeading(lines)
            first == Split(slides[1])
        IN  /\ Len(first) >= h
            /\ SubSeq(first, 1, h) = SubSeq(lines, 1, h)

\* C4 amended: lines before the first heading line are not dropped; they are
\* emitted as a slide of their own, the first one, and the slide that starts at
\* the first heading is the second slide.
C4_LeadingIsOwnSlide ==
    (view = "preview" /\ HasLeadingContent(text)) =>
        LET lines == Split(text)
            h == FirstHeading(lines)
        IN  /\ Len(slides) >= 2
            /\ slides[1] = Join(SubSeq(lines, 1, h - 1))
            /\ Split(slides[2])[1] = lines[h]

C4_Witness ==
    /\ view = "preview"
    /\ text = ExLeading
    /\ Len(slides) = 2
    /\ slides[1] = <<"i", "n", "t", "r", "o">>

\* C5: parseSlides of the empty text and of any whitespace-only text returns
\* exactly one slide, the fixed placeholder slide.
C5_BlankGivesPlaceholder ==
    (view = "preview" /\ ~HasNonWhitespace(text)) => slides = <<PLACEHOLDER>>

C5_Witness ==
    /\ view = "preview"
    /\ text = ExThreeSpaces
    /\ slides = <<PLACEHOLDER>>
    /\ slides # <<text>>

\* C6 as stated: every text without a level-1/2 heading line gives exactly one
\* slide, the entire text.
C6_NoHeadingOneSlideEveryText ==
    (view = "preview" /\ HeadingIndexes(Split(text)) = {}) => slides = <<text>>

\* C6 amended: every text without a level-1/2 heading line that has a
\* non-whitespace character gives exactly one slide, the entire text.
C6_NoHeadingOneSlideNonBlank ==
    (view = "preview" /\ HeadingIndexes(Split(text)) = {} /\ HasNonWhitespace(text))
        => slides = <<text>>

C6_Witness ==
    /\ view = "preview"
    /\ text = ExNotHeadings
    /\ slides = <<text>>

(***************************************************************************)
(* Gateway claims                                                          *)
(***************************************************************************)
\* the last request was a save with an existing id whose update fetch got outcome o
UpdateOutcome(o) ==
    /\ lastReq.op = "save"
    /\ lastReq.gistId # NoId
    /\ Len(lastResp.calls) >= 1
    /\ lastResp.calls[1] = [m |-> "PATCH", id |-> lastReq.gistId, status |-> o]

\* the update of the last save was answered with a non-success HTTP status
UpdateAnsweredNotOk == \E o \in {404, 502} : UpdateOutcome(o)

\* the update of the last save failed, by a non-success status or at network level
UpdateFailed == \E o \in {404, 502, 0} : UpdateOutcome(o)

\* the last response is a success payload of save carrying a newly created id
ForkedPayload ==
    /\ lastResp.error = ""
    /\ lastResp.status = 200
    /\ lastResp.updated = FALSE
    /\ lastResp.id # NoId
    /\ lastResp.id \notin issuedBefore
    /\ lastResp.id # lastReq.gistId

C8_RejectedUpdateFallsBack ==
    UpdateOutcome(0) =>
        /\ Len(lastResp.calls) = 2
        /\ lastResp.calls[2].m = "POST"
        /\ Ok(lastResp.calls[2].status) => lastResp.error = ""

\* the lookup of id by the last list request was answered ok
LookupOk(id) ==
    \E i \in 1..Len(lastResp.calls) :
        lastResp.calls[i] = [m |-> "GET", id |-> id, status |-> 200]

\* C9 as stated: an id returned by a successful save with no existing id is in
\* the result of every later list() until it is deleted (here: while the
\* document exists and the id is in the ownership list).
C9_CreatedIdInEveryList ==
    lastReq.op = "list" =>
        \A id \in created :
            (id \in gists /\ Includes(lastReq.cookie.ids, id)) => Includes(lastResp.gists, id)

\* C9 amended: a successful save with no existing id returns an id distinct from
\* every id issued before and puts it in the ownership list; a later list()
\* returns that id exactly when it is still in the ownership list sent with the
\* request and its remote lookup succeeds (a failed lookup drops it silently).
C9_FreshIdListedWhenLookupOk ==
    /\ (lastReq.op = "save" /\ lastReq.gistId = NoId /\ lastResp.error = "") =>
           /\ lastResp.id # NoId
           /\ lastResp.id \notin issuedBefore
           /\ cookie.state = "list"
           /\ Includes(cookie.ids, lastResp.id)
    /\ lastReq.op = "list" =>
           \A id \in created :
               Includes(lastResp.gists, id) <=>
                   (Includes(lastReq.cookie.ids, id) /\ LookupOk(id))

C9_Witness ==
    /\ lastReq.op = "list"
    /\ \E id \in created : Includes(lastResp.gists, id)
    /\ \E id \in created : Includes(lastReq.cookie.ids, id) /\ ~Includes(lastResp.gists, id)

\* C10, the answers: checkOwnership(id) answers owned exactly when id is in the
\* ownership list of the cookie sent, makes no remote call, and answers false
\* for every id no save returned to this client.
C10_OwnedIffInCookie ==
    lastReq.op = "check" =>
        /\ lastResp.owned <=>
               (lastReq.cookie.state = "list" /\ Includes(lastReq.cookie.ids, lastReq.gistId))
        /\ lastResp.calls = <<>>
        /\ lastReq.gistId \notin returned => ~lastResp.owned

\* C10, the moment: the checkOwnership(id) that follows a save (direct or
\* fallback create, or update) which returned id answers owned.
C10_OwnedRightAfterSave ==
    (/\ lastReq.op = "save"
     /\ lastResp.id # NoId
     /\ lastReq'.op = "check"
     /\ lastReq'.gistId = lastResp.id) => lastResp'.owned

\* C10: checkOwnership(id) is true exactly when id is in the client's ownership
\* cookie list: false for every id never returned by a save to this client, true
\* from the moment a save returns that id, without any remote call.
C10_CheckOwnership == []C10_OwnedIffInCookie /\ [][C10_OwnedRightAfterSave]_vars

C10_Witness ==
    /\ lastReq.op = "check"
    /\ lastResp.owned
    /\ lastReq.gistId \in returned \ created
    /\ lastReq.gistId \notin gists

\* the ownership list a cookie value stands for
ListOf(ck) == IF ck.state = "list" THEN ck.ids ELSE <<>>

Without(list, id) == SelectSeq(list, LAMBDA x : x # id)

NoDuplicates(list) == \A i, j \in 1..Len(list) : list[i] = list[j] => i = j

\* the last request was a delete whose remote request got outcome o
DeleteOutcome(o) ==
    /\ lastReq.op = "delete"
    /\ lastResp.calls = <<[m |-> "DELETE", id |-> lastReq.gistId, status |-> o]>>

\* C11 as stated, for the second of two calls: a delete(id) that follows a
\* delete(id) which returned success returns success.
C11_SecondDeleteSucceeds ==
    [][(/\ lastReq.op = "delete"
        /\ lastResp.success
        /\ lastReq'.op = "delete"
        /\ lastReq'.gistId = lastReq.gistId) => lastResp'.success]_vars

\* C11 amended, the state after a call: a delete(id) that returned success was
\* answered success or not-found by the remote store, and id is not in the
\* ownership list.
C11_AbsentAfterDelete ==
    (lastReq.op = "delete" /\ lastResp.success) =>
        /\ DeleteOutcome(204) \/ DeleteOutcome(404)
        /\ ~Includes(ListOf(cookie), lastReq.gistId)

\* C11 amended, the second call: after a delete(id) that returned success, a
\* delete(id) answered not-found returns success and leaves the ownership list
\* as it is; a list() returns no document with that id.
C11_SecondDeleteStep ==
    (lastReq.op = "delete" /\ lastResp.success) =>
        /\ (/\ lastReq'.op = "delete"
            /\ lastReq'.gistId = lastReq.gistId
            /\ lastResp'.calls = <<[m |-> "DELETE", id |-> lastReq.gistId, status |-> 404]>>)
               => (lastResp'.success /\ ListOf(cookie') = ListOf(cookie))
        /\ lastReq'.op = "list" => ~Includes(lastResp'.gists, lastReq.gistId)

\* C11 amended: delete(id) is idempotent when the remote store answers: after
\* every call that returns success id is absent from the ownership list and from
\* list(), and a second call right after it, answered not-found, returns success
\* and changes nothing; a call whose remote request fails returns an error.
C11_DeleteIdempotent == []C11_AbsentAfterDelete /\ [][C11_SecondDeleteStep]_vars

C11_Witness ==
    /\ DeleteOutcome(404)
    /\ lastResp.success
    /\ lastReq.gistId \in returned
    /\ ~Includes(ListOf(lastReq.cookie), lastReq.gistId)
    /\ Len(ListOf(cookie)) >= 1

\* C12: delete(id) removes id from the ownership list whenever the remote
\* delete is answered success or not-found (with a readable cookie it returns
\* success and the list is the old one without id); when the remote delete is
\* answered another non-success status or fails at transport level, delete
\* returns an error, sets no cookie, and the cookie is unchanged.
C12_DeleteRemovesOrRefuses ==
    /\ (DeleteOutcome(204) \/ DeleteOutcome(404)) =>
           /\ ~Includes(ListOf(cookie), lastReq.gistId)
           /\ lastReq.cookie.state # "corrupt" =>
                  /\ lastResp.success
                  /\ cookie.state = "list"
                  /\ cookie.ids = Without(ListOf(lastReq.cookie), lastReq.gistId)
    /\ (DeleteOutcome(502) \/ DeleteOutcome(0)) =>
           /\ lastResp.error # ""
           /\ lastResp.status \in {500, 502}
           /\ ~lastResp.success
           /\ ~lastResp.setCookie
           /\ cookie = lastReq.cookie

C12_Witness ==
    /\ DeleteOutcome(204)
    /\ Includes(ListOf(lastReq.cookie), lastReq.gistId)
    /\ ~Includes(ListOf(cookie), lastReq.gistId)
    /\ Len(ListOf(cookie)) >= 1

\* C13: in every step the ownership list changes only by a save that returns
\* no error and appends the id it returns, or by a delete that returns success
\* and takes the deleted id out; list, load, checkOwnership and every save or
\* delete that returns an error leave it as it was.
C13_OwnershipFrame ==
    [][LET old == ListOf(cookie)
           new == ListOf(cookie')
       IN  new # old =>
               \/ /\ lastReq'.op = "save"
                  /\ lastResp'.error = ""
                  /\ lastResp'.id # NoId
                  /\ ~Includes(old, lastResp'.id)
                  /\ new = Append(old, lastResp'.id)
               \/ /\ lastReq'.op = "delete"
                  /\ lastResp'.error = ""
                  /\ lastResp'.success
                  /\ Includes(old, lastReq'.gistId)
                  /\ new = Without(old, lastReq'.gistId)]_vars

C13_Witness ==
    /\ lastReq.op = "save"
    /\ lastResp.error # ""
    /\ Created(lastResp.calls) = FALSE
    /\ Len(ListOf(cookie)) >= 2
    /\ cookie = lastReq.cookie

\* the remote step of the last save or delete succeeded
RemoteStepSucceeded ==
    \/ /\ lastReq.op = "save"
       /\ \E i \in 1..Len(lastResp.calls) : Ok(lastResp.calls[i].status)
    \/ DeleteOutcome(204)
    \/ DeleteOutcome(404)

\* C14: a missing or corrupt ownership cookie is read as the empty list by
\* every operation: list returns no document and checkOwnership answers false,
\* and a save or delete whose remote step succeeded returns success.
C14_UnreadableCookieIsEmptyList ==
    lastReq.cookie.state \in {"absent", "corrupt"} =>
        /\ lastReq.op = "list" => (lastResp.error = "" /\ lastResp.gists = <<>>)
        /\ lastReq.op = "check" => ~lastResp.owned
        /\ RemoteStepSucceeded => (lastResp.error = "" /\ lastResp.status = 200)

\* C15: the ownership list never holds an id twice, and a save that returns an
\* id already in the list sent with it writes the list back unchanged.
C15_NoDuplicateIds ==
    /\ NoDuplicates(ListOf(cookie))
    /\ (/\ lastReq.op = "save"
        /\ lastResp.id # NoId
        /\ Includes(ListOf(lastReq.cookie), lastResp.id)) =>
           /\ lastResp.setCookie
           /\ lastResp.cookieIds = ListOf(lastReq.cookie)

C15_Witness ==
    /\ lastReq.op = "save"
    /\ lastResp.updated
    /\ Includes(ListOf(lastReq.cookie), lastResp.id)
    /\ Len(ListOf(cookie)) = 2
    /\ cookie = lastReq.cookie

\* the owned ids of the last list request whose lookup was answered ok, in the
\* order of the ownership list
IdsAnsweredOk ==
    LET list == ListOf(lastReq.cookie)
    IN  SelectSeq(list, LAMBDA id :
            \E i \in 1..Len(lastResp.calls) :
                /\ lastResp.calls[i].m = "GET"
                /\ lastResp.calls[i].id = id
                /\ lastResp.calls[i].status \in 200..299)

\* C16: with the credential configured, list() returns a success response
\* whatever lookups fail (non-success status or transport failure); it looks
\* up every owned id and returns exactly the documents of the owned ids whose
\* lookup did not fail.
C16_ListDropsFailedIds ==
    (lastReq.op = "list" /\ token) =>
        /\ lastResp.status = 200
        /\ lastResp.error = ""
        /\ Len(lastResp.calls) = Len(ListOf(lastReq.cookie))
        /\ lastResp.gists = IdsAnsweredOk

C16_Witness ==
    /\ lastReq.op = "list"
    /\ Len(lastResp.calls) = 2
    /\ lastResp.calls[1].status \in {404, 502, 0}
    /\ lastResp.calls[2].status = 200
    /\ lastResp.gists = <<lastResp.calls[2].id>>

\* C17: whatever the order in which the lookups of a list request complete,
\* the response holds the owned ids whose lookup was answered ok, in the order
\* of the ownership list.
C17_ListOrderIndependent ==
    joined =>
        /\ Len(settleOrder) = Len(ownedGists)
        /\ listed = SelectSeq(ownedGists, LAMBDA id :
               \E i \in 1..Len(ownedGists) : ownedGists[i] = id /\ gistPromises[i] # Null)

C17_Witness ==
    /\ joined
    /\ Len(ownedGists) = 3
    /\ settleOrder = <<3, 1, 2>>
    /\ listed = <<ownedGists[1], ownedGists[3]>>
    /\ ownedGists[1] > ownedGists[3]

\* the last request was a load whose remote lookup got outcome o
LoadOutcome(o) ==
    /\ lastReq.op = "load"
    /\ lastResp.calls = <<[m |-> "GET", id |-> lastReq.gistId, status |-> o]>>

\* C18: load(id) returns the error "Gist not found" with status 404 and no
\* payload when the remote store answers not-found; it returns an error with
\* status 500 and no payload when the remote store cannot be reached or the
\* credential is missing (then without any remote call); it returns a payload
\* only when the credential is configured and the lookup was answered ok.
C18_LoadErrors ==
    lastReq.op = "load" =>
        /\ LoadOutcome(404) =>
               (lastResp.error = "Gist not found" /\ lastResp.status = 404 /\ ~lastResp.payload)
        /\ LoadOutcome(0) =>
               (lastResp.error # "" /\ lastResp.status = 500 /\ ~lastResp.payload)
        /\ ~token =>
               /\ lastResp.error # ""
               /\ lastResp.status = 500
               /\ ~lastResp.payload
               /\ lastResp.calls = <<>>
        /\ lastResp.payload => (token /\ LoadOutcome(200) /\ lastResp.error = "")
        /\ lastResp.payload \/ lastResp.error # ""

C18_Witness ==
    /\ LoadOutcome(404)
    /\ lastReq.gistId \in returned
    /\ ~lastResp.payload

\* C19: load(id) answered ok by the remote store, of a document whose metadata
\* entry is absent, is not parsable JSON or has no title, returns a payload
\* with the document's content and the default title, and no error.
C19_MalformedMetadataDefaultTitle ==
    (LoadOutcome(200) /\ lastDoc.meta \in {"absent", "unparsable", "notitle"}) =>
        /\ lastResp.payload
        /\ lastResp.error = ""
        /\ lastResp.status = 200
        /\ lastResp.title = "Untitled Presentation"
        /\ lastResp.content = lastDoc.content

C19_Witness ==
    /\ LoadOutcome(200)
    /\ lastDoc.meta = "unparsable"
    /\ lastResp.payload
    /\ lastResp.title = DEFAULT_TITLE

\* C20: without the credential, save, load and delete answer status 500 with
\* the error "GitHub token not configured", list answers an empty list, and
\* no request issues a remote call or changes the ownership cookie.
C20_NoTokenNoRemoteCall ==
    (~token /\ lastReq.op # "none") =>
        /\ lastResp.calls = <<>>
        /\ ~lastResp.setCookie
        /\ cookie = lastReq.cookie
        /\ lastReq.op \in {"save", "load", "delete"} =>
               /\ lastResp.status = 500
               /\ lastResp.error = "GitHub token not configured"
               /\ lastResp.id = NoId
               /\ ~lastResp.success
               /\ ~lastResp.payload
        /\ lastReq.op = "list" =>
               (lastResp.status = 200 /\ lastResp.error = "" /\ lastResp.gists = <<>>)

C20_Witness ==
    /\ ~token
    /\ lastReq.op = "delete"
    /\ Includes(ListOf(lastReq.cookie), lastReq.gistId)
    /\ lastResp.status = 500
    /\ cookie = lastReq.cookie

\* the last request was a save answered with a success payload
SaveSucceeded ==
    /\ lastReq.op = "save"
    /\ lastResp.error = ""
    /\ lastResp.id # NoId

\* C28: each successful save writes the cookie from the list its own request
\* carried plus the id it returns, whatever the jar holds by then; so when two
\* saves sent with the same cookie are both answered, the second answer
\* overwrites the first and the id the first returned is lost (C28_Witness).
C28_CookieFromRequestCookie ==
    SaveSucceeded =>
        /\ cookie.state = "list"
        /\ cookie.ids = IF Includes(ListOf(lastReq.cookie), lastResp.id)
                        THEN ListOf(lastReq.cookie)
                        ELSE Append(ListOf(lastReq.cookie), lastResp.id)

C28_Witness ==
    /\ SaveSucceeded
    /\ \A t \in Tabs : inflight[t] = NoReq
    /\ Cardinality(created) = 2
    /\ Len(ListOf(cookie)) = 1
    /\ \E id \in created : ~Includes(ListOf(cookie), id)
    /\ \A id \in created : id \in gists

\* C29: save and delete go to the remote store whatever the ownership list
\* holds: a save with an existing id always issues the update of that id first,
\* and when the id is not in the caller's list and the update is answered ok it
\* returns updated:true with that id and the id is in the list afterwards; a
\* delete always issues the remote delete, and when the id is not in the
\* caller's list and the remote answers ok the document is gone.
C29_NoOwnershipCheck ==
    /\ (lastReq.op = "save" /\ lastReq.gistId # NoId /\ token) =>
           \E o \in {200, 404, 502, 0} : UpdateOutcome(o)
    /\ (UpdateOutcome(200) /\ ~Includes(ListOf(lastReq.cookie), lastReq.gistId)) =>
           /\ lastResp.error = ""
           /\ lastResp.updated
           /\ lastResp.id = lastReq.gistId
           /\ Includes(ListOf(cookie), lastReq.gistId)
    /\ (lastReq.op = "delete" /\ token) =>
           \E o \in {204, 404, 502, 0} : DeleteOutcome(o)
    /\ (DeleteOutcome(204) /\ ~Includes(ListOf(lastReq.cookie), lastReq.gistId)) =>
           /\ lastResp.success
           /\ lastReq.gistId \notin gists

C29_Witness ==
    /\ UpdateOutcome(200)
    /\ lastReq.gistId \notin returned \ {lastResp.id}
    /\ ~Includes(ListOf(lastReq.cookie), lastReq.gistId)
    /\ lastResp.updated
    /\ Includes(ListOf(cookie), lastReq.gistId)

\* C30: a successful save answers updated:true exactly when an existing id was
\* given and the remote update was answered ok, and then the returned id is the
\* existing id; every other successful save answers updated:false, and the
\* returned id is the one the remote store assigned to the document it created
\* for this request.
C30_UpdatedIffUpdateSucceeded ==
    SaveSucceeded =>
        /\ lastResp.updated <=> UpdateOutcome(200)
        /\ lastResp.updated => (lastResp.id = lastReq.gistId /\ ~Created(lastResp.calls))
        /\ ~lastResp.updated =>
               /\ Created(lastResp.calls)
               /\ lastResp.id \notin issuedBefore
               /\ lastResp.id \in 1..(nextId - 1)

C30_Witness ==
    /\ SaveSucceeded
    /\ UpdateOutcome(404)
    /\ ~lastResp.updated
    /\ lastReq.gistId \in returned
    /\ lastResp.id # lastReq.gistId

\* C21: at most one autosave timer is pending; a pending timer carries the
\* current content, title and bound id and is not due before the debounce
\* delay has passed since content or title last changed; a change of content
\* or title leaves exactly one timer, set to the full delay; when the autosave
\* fires, content and title have been unchanged for a full delay, what it
\* stores is the current content and title, and no timer is left pending.
C21_AutosaveCoalesced ==
    /\ Cardinality(timers) <= 1
    /\ \A tm \in timers :
           /\ tm.content = content
           /\ tm.title = title
           /\ tm.gistId = currentGistId
           /\ tm.remaining + quiet >= DEBOUNCE
    /\ lastEv.kind \in {"edit", "title"} =>
           (timers = {Timer(content, title, currentGistId)} /\ quiet = 0)
    /\ lastEv.kind = "autosave" =>
           /\ quiet >= DEBOUNCE
           /\ timers = {}
           /\ storage = [content |-> content, title |-> title]

C21_Witness ==
    /\ lastEv.kind = "title"
    /\ content = "# Mine"
    /\ title = "Mine"
    /\ storage = [content |-> "", title |-> ""]
    /\ timers = {Timer("# Mine", "Mine", currentGistId)}

\* C22: when the autosave has fired, local storage holds the current content
\* and title, and a remote save of the bound id was issued if and only if a
\* document id is bound; with no bound id no remote request was issued.
C22_AutosaveLocalAlwaysRemoteIffBound ==
    lastEv.kind = "autosave" =>
        /\ storage = [content |-> content, title |-> title]
        /\ lastEv.remote <=> currentGistId # NoId
        /\ lastEv.id = currentGistId
        /\ ~lastEv.remote => ~lastEv.failed

C22_Witness ==
    /\ lastEv.kind = "autosave"
    /\ lastEv.remote
    /\ ~lastEv.failed
    /\ currentGistId # NoId
    /\ storage = [content |-> "# Mine", title |-> title]

\* C23: an autosave whose remote save fails (error response or rejected
\* request) changes nothing of the session but local storage: content, title,
\* bound id, location, share dialog and loads in flight stay as they were, no
\* alert is shown, and local storage holds the content and title.
C23_FailedAutosaveSwallowed ==
    [][(lastEv'.kind = "autosave" /\ lastEv'.failed) =>
            /\ content' = content
            /\ title' = title
            /\ currentGistId' = currentGistId
            /\ gistParam' = gistParam
            /\ showPublishModal' = showPublishModal
            /\ publishedUrl' = publishedUrl
            /\ isLoadingGist' = isLoadingGist
            /\ shareReqs' = shareReqs
            /\ ~lastEv'.alert
            /\ storage' = [content |-> content, title |-> title]]_vars

C23_Witness ==
    /\ lastEv.kind = "autosave"
    /\ lastEv.failed
    /\ ~lastEv.alert
    /\ currentGistId # NoId
    /\ content = "# Mine"
    /\ storage = [content |-> content, title |-> title]

\* C24 as stated, its second part: when a load of a document that is not owned
\* has arrived (answered by the server without error), no document is bound.
C24_UnownedLoadUnbinds ==
    (lastEv.kind \in {"loadApplied", "loadEmpty"} /\ ~lastEv.owned) => currentGistId = NoId

\* C24 amended: the bound id becomes a new non-null value only by the answer to
\* a Share that returned that id or by the arrival of a load of that id with
\* non-empty content whose ownership check answered owned; a load with
\* non-empty content that is not owned sets it to null; a load that failed or
\* returned empty content leaves it as it was.
C24_BindingOnlyByShareOrOwnedLoad ==
    [][/\ (currentGistId' # currentGistId /\ currentGistId' # NoId) =>
              \/ (lastEv'.kind = "shareDone" /\ ~lastEv'.failed /\ lastEv'.id = currentGistId')
              \/ (lastEv'.kind = "loadApplied" /\ lastEv'.owned /\ lastEv'.id = currentGistId')
       /\ (lastEv'.kind = "loadApplied" /\ ~lastEv'.owned) => currentGistId' = NoId
       /\ lastEv'.kind \in {"loadRejected", "loadError", "loadEmpty"} =>
              currentGistId' = currentGistId]_vars

C24_Witness ==
    /\ lastEv.kind = "loadApplied"
    /\ ~lastEv.owned
    /\ currentGistId = NoId
    /\ publishedUrl # NoId
    /\ content = "# Talk"

\* C25: Share with a bound id sends no request and changes only the share
\* dialog: content, title, bound id, location, timers and requests in flight
\* stay as they were and the share URL embeds the bound id; a Share sends a
\* save only when no id is bound.
C25_ShareBoundOnlyShowsUrl ==
    [][/\ lastEv'.kind = "shareUrl" =>
              /\ currentGistId # NoId
              /\ ~lastEv'.remote
              /\ UNCHANGED <<content, title, currentGistId, gistParam, isLoadingGist, loadReq,
                             shareReqs, timers, storage, cookie, gists, nextId>>
              /\ publishedUrl' = currentGistId
              /\ showPublishModal'
       /\ lastEv'.kind = "shareSent" => currentGistId = NoId]_vars

C25_Witness ==
    /\ lastEv.kind = "shareUrl"
    /\ currentGistId # NoId
    /\ publishedUrl = currentGistId
    /\ showPublishModal
    /\ shareReqs = <<>>

\* C26 as stated, its outcome: once a Share has bound an id and the location
\* embeds it, the session is bound to that id whenever no load is in flight.
C26_SharedIdStaysBound ==
    (publishedUrl # NoId /\ gistParam = publishedUrl /\ ~isLoadingGist) =>
        currentGistId = publishedUrl

\* C26 amended: Share with no bound id sends a save without an existing id;
\* when the answer carries an id, the bound id, the share URL and the location
\* become that id; if no load is in flight then, a load of that id starts, sent
\* with a cookie that lists it, and if one is in flight no load starts; the
\* arrival of a load of the currently bound id leaves the session bound to it.
C26_ShareBindsAndReloads ==
    [][/\ lastEv'.kind = "shareSent" =>
              (currentGistId = NoId /\ shareReqs'[Len(shareReqs')].gistId = NoId)
       /\ (lastEv'.kind = "shareDone" /\ ~lastEv'.failed) =>
              /\ lastEv'.id # NoId
              /\ currentGistId' = lastEv'.id
              /\ publishedUrl' = lastEv'.id
              /\ gistParam' = lastEv'.id
              /\ isLoadingGist'
              /\ ~isLoadingGist =>
                     /\ loadReq'.gistId = lastEv'.id
                     /\ Includes(ListOf(loadReq'.cookie), lastEv'.id)
              /\ isLoadingGist => loadReq' = loadReq
       /\ (/\ lastEv'.kind \in {"loadRejected", "loadError", "loadApplied", "loadEmpty"}
           /\ currentGistId # NoId
           /\ lastEv'.id = currentGistId) => currentGistId' = currentGistId]_vars

C26_Witness ==
    /\ lastEv.kind = "loadApplied"
    /\ lastEv.owned
    /\ lastEv.id = currentGistId
    /\ publishedUrl = currentGistId
    /\ gistParam = currentGistId
    /\ currentGistId \notin {NoId, 1}

\* C27: every Share whose save failed and every load that failed, by a
\* rejected request or by an error response of the server, has shown an alert.
C27_FailureShowsNotice ==
    /\ (lastEv.kind = "shareDone" /\ lastEv.failed) => lastEv.alert
    /\ lastEv.kind \in {"loadRejected", "loadError"} => lastEv.alert

C38_SegmentersAgreeOnNonBlank ==
    /\ view = "preview" =>
           /\ slides = parseSlides(text)
           /\ HasNonWhitespace(text) => slides = landingParseSlides(text)
           /\ ~HasNonWhitespace(text) => slides # landingParseSlides(text)
    /\ view = "landing" =>
           /\ slides = landingParseSlides(text)
           /\ HasNonWhitespace(text) => slides = parseSlides(text)
           /\ ~HasNonWhitespace(text) => slides # parseSlides(text)

C38_Witness ==
    /\ view = "landing"
    /\ text = ExLeading
    /\ Len(slides) = 2
    /\ slides = parseSlides(text)

\* C32: a load that arrives with non-empty content is applied whatever the
\* session holds then: content and title become the loaded document's and the
\* bound id is the loaded id if the ownership check answered owned, else null;
\* edits made since the load was sent, autosaved locally or not, are replaced.
C32_LoadOverwritesEdits ==
    [][(LoadSettles /\ lastEv'.kind = "loadApplied") =>
           /\ \E doc \in EdDocs :
                  /\ doc.content # ""
                  /\ content' = doc.content
                  /\ title' = LoadTitle(doc.meta).title
           /\ content' \notin TypedContents
           /\ title' \notin TypedTitles
           /\ currentGistId' = IF lastEv'.owned THEN loadReq.gistId ELSE NoId]_vars

C32_Witness ==
    /\ lastEv.kind = "loadApplied"
    /\ lastEv.id = publishedUrl
    /\ publishedUrl # NoId
    /\ storage = [content |-> "# Mine", title |-> "Mine"]
    /\ content = "# Talk"
    /\ title = SomeTitle

\* C34: a load answered with an error payload or with a document whose content
\* is empty leaves content, title and bound id as they were; an id bound
\* before, of another document too, stays bound.
C34_FailedOrEmptyLoadChangesNothing ==
    [][(LoadSettles /\ lastEv'.kind \in {"loadError", "loadEmpty"}) =>
           /\ content' = content
           /\ title' = title
           /\ currentGistId' = currentGistId
           /\ timers' = timers]_vars

C34_Witness ==
    /\ lastEv.kind = "loadEmpty"
    /\ currentGistId # NoId
    /\ currentGistId # lastEv.id
    /\ content = "# Mine"

\* C37: right after Clear no id is bound, the location carries no id, and
\* every pending autosave timer holds the null binding; a timer never holds a
\* binding other than the session's, and an autosave writes remotely only to
\* the id bound when it fires, so after Clear none does until a Share or an
\* owned load has bound an id again.
C37_ClearUnbinds ==
    /\ lastEv.kind = "clear" =>
           /\ currentGistId = NoId
           /\ gistParam = NoId
           /\ content = CLEARED_CONTENT
           /\ \A tm \in timers : tm.gistId = NoId /\ tm.content = CLEARED_CONTENT
    /\ \A tm \in timers : tm.gistId = currentGistId
    /\ (lastEv.kind = "autosave" /\ lastEv.remote) =>
           (lastEv.id = currentGistId /\ currentGistId # NoId)

C37_Witness ==
    /\ lastEv.kind = "autosave"
    /\ ~lastEv.remote
    /\ content = CLEARED_CONTENT
    /\ storage.content = CLEARED_CONTENT
    /\ publishedUrl # NoId
    /\ currentGistId = NoId

\* C39: after every save that returned an id, the metadata entry stored for
\* that id has createdAt (and updatedAt) equal to the time of that save, for an
\* update as for a create; after an update made later than the creation, the
\* stored createdAt is not the time the document was created.
C39_CreatedAtIsSaveTime ==
    [][(MetaSave /\ lastResp'.id # NoId) =>
           /\ metadata'[lastResp'.id] = [createdAt |-> now, updatedAt |-> now]
           /\ (lastResp'.updated /\ firstCreated[lastResp'.id] < now) =>
                  metadata'[lastResp'.id].createdAt # firstCreated'[lastResp'.id]]_vars

C39_Witness ==
    /\ lastReq.op = "save"
    /\ lastResp.updated
    /\ lastResp.id = 1
    /\ firstCreated[1] = 0
    /\ metadata[1] = [createdAt |-> 2, updatedAt |-> 2]

\* C33: in present mode the slides on display are the segmentation of the
\* content the editor held when Present was invoked.
C33_PresentShowsEditorContent ==
    view = "present" => slides = parseSlides(presentationContent)

\* C35: the mounted page has at most one load in flight, and isLoadingGist is
\* set exactly then; a change of the location's gist id while a load is in
\* flight starts no load; the answer to a load starts none either, so the id
\* the location then carries is loaded only after a further change of the id
\* or when a page is mounted.
C35_LoadsInFlight ==
    /\ Len(loads) <= 1
    /\ isLoadingGist <=> loads # <<>>

C35_LoadStartsOnlyOnChange ==
    [][/\ (HashChange /\ isLoadingGist) => (loads' = loads /\ isLoadingGist')
       /\ PageLoadSettles => (loads' = <<>> /\ gistParam' = gistParam)
       /\ (loads' # <<>> /\ loads' # loads) =>
              /\ gistParam' # gistParam \/ view' # view
              /\ loads' = <<gistParam'>>
              /\ view' = view => loads = <<>>]_vars

C35_OneLoadAtATime == []C35_LoadsInFlight /\ C35_LoadStartsOnlyOnChange

C35_Witness ==
    /\ view = "editor"
    /\ loads = <<1>>
    /\ isLoadingGist
    /\ gistParam = 2

\* C36: on every page the index of the slide on display is within
\* 0..(number of slides - 1); when the last slide is on display Next leaves it
\* on display, when the first is on display Previous does; the auto-advance of
\* the demo stays in range; and when the stored index of the preview or of
\* present mode is beyond the slides, the last slide is on display.
C36_DisplayedIndexInRange ==
    LET n == Len(slides)
        d == Displayed(view, currentSlide, n)
    IN  /\ n >= 1
        /\ slides = Render(view, text)
        /\ d \in 0..(n - 1)
        /\ d = n - 1 => Displayed(view, NextIndex(view, currentSlide, n), n) = d
        /\ d = 0 => Displayed(view, PrevIndex(view, currentSlide, n), n) = d
        /\ view = "landing" => AdvanceIndex(currentSlide, n) \in 0..(n - 1)
        /\ (view # "landing" /\ currentSlide > n - 1) => d = n - 1

C36_Witness ==
    /\ view = "editor"
    /\ text = ExSlideA
    /\ currentSlide = 1
    /\ Len(slides) = 1
    /\ Displayed(view, currentSlide, Len(slides)) = 0

=============================================================================
